---- MODULE Spec2Model ----
(***************************************************************************)
(* Held-Karp TSP solver of src/src/main.rs (struct TSPSolver).             *)
(*                                                                         *)
(* One behaviour is one TSPSolver: Init is the state after                 *)
(* TSPSolver::new(distances); the actions are the steps of solve(), of the *)
(* recursive tsp_dp (with an explicit call stack) and of reconstruct_path. *)
(* Cities, masks and positions are 0-based as in the source; TLA+          *)
(* sequences are 1-based, so dist[i][j] of the source is Dist(i, j).       *)
(* The progress bar is left out: it is only written to, never read.        *)
(* Every entry of an input matrix lies in 0..INF.                          *)
(***************************************************************************)
EXTENDS Integers, Sequences, FiniteSets

(* ------------------------------------------------------------------ *)
(* Program constants                                                   *)
(* ------------------------------------------------------------------ *)

\* i32::MAX and i32::MIN
I32Max == 2147483647
I32Min == (-I32Max) - 1

\* mutant of INF: the sentinel is i32::MAX itself, so INF + INF overflows
INF_IsI32Max == I32Max

\* const INF: i32 = i32::MAX / 2;
INF == I32Max \div 2

(* ------------------------------------------------------------------ *)
(* Bounds of the model                                                 *)
(* ------------------------------------------------------------------ *)

\* largest number of cities of a generated matrix
MaxN == 5
\* finite edge costs are 0..MaxW; INF is always an edge cost too
MaxW == 1
\* generated matrices are numbered 0..MaxSeed
MaxSeed == 728
\* number of base-(MaxW+2) digits of a seed that are used
SeedDigits == 6
\* matrices with more than SeedDigits off-diagonal cells use every Stride-th seed
Stride == 8
\* capacity of the path vector: a push beyond it aborts the process
MaxPathLen == 8

(* ------------------------------------------------------------------ *)
(* i32 arithmetic                                                      *)
(* ------------------------------------------------------------------ *)

\* a + b overflows i32 (a, b are i32 values)
Overflows(a, b) ==
    \/ (b > 0 /\ a > I32Max - b)
    \/ (b < 0 /\ a < I32Min - b)

\* a + b on i32, wrapping on overflow (release build; a debug build panics
\* where Overflows(a, b) holds); computed without leaving the i32 range
Add32(a, b) ==
    IF b > 0 /\ a > I32Max - b THEN I32Min + ((a - (I32Max - b)) - 1)
    ELSE IF b < 0 /\ a < I32Min - b THEN I32Max - (((I32Min - b) - a) - 1)
    ELSE a + b

\* i32::min
Min(a, b) == IF a < b THEN a ELSE b

(* ------------------------------------------------------------------ *)
(* Bitmasks (usize)                                                    *)
(* ------------------------------------------------------------------ *)

\* 1 << k
Shl1(k) == 2 ^ k

\* (mask & (1 << city)) == 0
NotVisited(mask, city) == (mask \div Shl1(city)) % 2 = 0

\* mask | (1 << city)
WithCity(mask, city) == IF NotVisited(mask, city) THEN mask + Shl1(city) ELSE mask

\* (1 << n) - 1
FullMask(k) == Shl1(k) - 1

(* ------------------------------------------------------------------ *)
(* Input matrices                                                      *)
(* ------------------------------------------------------------------ *)

\* number of distinct edge costs
Base == MaxW + 2

\* the d-th edge cost: 0..MaxW, then INF
EdgeCost(d) == IF d = Base - 1 THEN INF ELSE d

Digit(seed, j) == (seed \div (Base ^ j)) % Base

\* row-major number of the off-diagonal cell (i, j) of a k x k matrix
CellIndex(k, i, j) == i * (k - 1) + (IF j > i THEN j - 1 ELSE j)

Entry(k, seed, i, j) ==
    IF i = j THEN 0
    ELSE LET c == CellIndex(k, i, j)
         IN  EdgeCost((Digit(seed, c % SeedDigits) + (c \div SeedDigits)) % Base)

SquareMatrix(k, seed) ==
    [i \in 1..k |-> [j \in 1..k |-> Entry(k, seed, i - 1, j - 1)]]

\* sizes whose matrices are enumerated exhaustively
SmallSize(k) == k * (k - 1) <= SeedDigits

Seeds(k) ==
    IF k <= 1 THEN {0}
    ELSE IF SmallSize(k) THEN 0..MaxSeed
    ELSE {s \in 0..MaxSeed : s % Stride = 0}

SampledSeeds == {s \in 0..MaxSeed : s % Stride = 0}

\* the 4-city instance of the concrete scenario
ExampleMatrix ==
    << <<0, 10, 15, 20>>,
       <<10, 0, 35, 25>>,
       <<15, 35, 0, 30>>,
       <<20, 25, 30, 0>> >>

SquareMatrices ==
    {SquareMatrix(k, s) : <<k, s>> \in {ks \in (0..MaxN) \X (0..MaxSeed) : ks[2] \in Seeds(ks[1])}}
        \cup {ExampleMatrix}

\* row r of m cut by one column ("short") or extended by one column ("long")
Reshape(m, r, kind) ==
    [m EXCEPT ![r] = IF kind = "short" THEN SubSeq(m[r], 1, Len(m[r]) - 1)
                     ELSE Append(m[r], 1)]

RaggedMatrices ==
    {Reshape(SquareMatrix(q[1], q[2]), q[3], q[4]) :
        q \in {x \in (1..MaxN) \X SampledSeeds \X (1..MaxN) \X {"short", "long"} :
                 SmallSize(x[1]) /\ x[3] <= x[1]}}

InputMatrices == SquareMatrices \cup RaggedMatrices

(* ------------------------------------------------------------------ *)
(* State                                                               *)
(* ------------------------------------------------------------------ *)

VARIABLES
    n,                \* TSPSolver.n
    dist,             \* TSPSolver.dist
    dp,               \* TSPSolver.dp: (mask, pos) -> cost
    total_states,     \* TSPSolver.total_states
    computed_states,  \* TSPSolver.computed_states
    pc,               \* position in solve / tsp_dp / reconstruct_path
    phase,            \* caller of the outermost tsp_dp: "forward" or "recon"
    stack,            \* tsp_dp activation records, innermost last
    ret,              \* value returned by the tsp_dp call that just returned
    min_cost,         \* solve: min_cost (the returned cost)
    path,             \* reconstruct_path: path (the returned path once done)
    rmask,            \* reconstruct_path: mask
    rpos,             \* reconstruct_path: pos
    rcity,            \* reconstruct_path: city of the for loop
    next_city,        \* reconstruct_path: next_city
    rmin,             \* reconstruct_path: min_cost of the current iteration
    inserts,          \* history: number of dp.insert executions
    fallbacks,        \* history: states tsp_dp was called for from reconstruct_path
    last_add          \* history: operands <<l, r>> of the latest i32 addition

vars == <<n, dist, dp, total_states, computed_states, pc, phase, stack, ret,
          min_cost, path, rmask, rpos, rcity, next_city, rmin,
          inserts, fallbacks, last_add>>

solverVars == <<n, dist, total_states>>
reconVars == <<path, rmask, rpos, rcity, next_city, rmin>>
scanVars == <<rcity, next_city, rmin>>

\* self.dist[i][j] is inside the bounds of row i
InBounds(i, j) == i < Len(dist) /\ j < Len(dist[i + 1])

\* self.dist[i][j]
Dist(i, j) == dist[i + 1][j + 1]

\* TSPSolver::new
Init ==
    /\ dist \in InputMatrices
    /\ n = Len(dist)
    /\ total_states = Len(dist) * Shl1(Len(dist))
    /\ dp = << >>
    /\ computed_states = 0
    /\ pc = "start"
    /\ phase = "forward"
    /\ stack = << >>
    /\ ret = 0
    /\ min_cost = 0
    /\ path = << >>
    /\ rmask = 0
    /\ rpos = 0
    /\ rcity = 0
    /\ next_city = 0
    /\ rmin = 0
    /\ inserts = 0
    /\ fallbacks = {}
    /\ last_add = <<0, 0>>

(* ------------------------------------------------------------------ *)
(* solve                                                               *)
(* ------------------------------------------------------------------ *)

\* an activation record of tsp_dp(mask, pos), before its body runs
Frame(mask, pos) == [mask |-> mask, pos |-> pos, city |-> 0, ans |-> INF]

Top == stack[Len(stack)]
Pop == SubSeq(stack, 1, Len(stack) - 1)
Key(f) == <<f.mask, f.pos>>

\* mutant of IsTrivial: only the empty matrix is trivial
IsTrivial_Strict == n < 1

\* if self.n <= 1
IsTrivial == n <= 1

\* if self.n <= 1 { return (0, vec![0]); }
SolveTrivial ==
    /\ pc = "start"
    /\ IsTrivial
    /\ min_cost' = 0
    /\ path' = <<0>>
    /\ pc' = "done"
    /\ UNCHANGED <<solverVars, dp, computed_states, phase, stack, ret,
                   rmask, rpos, scanVars, inserts, fallbacks, last_add>>

\* let min_cost = self.tsp_dp(1, 0): the call
SolveCall ==
    /\ pc = "start"
    /\ ~IsTrivial
    /\ stack' = <<Frame(1, 0)>>
    /\ pc' = "call"
    /\ UNCHANGED <<solverVars, dp, computed_states, phase, ret, min_cost,
                   reconVars, inserts, fallbacks, last_add>>

\* let min_cost = self.tsp_dp(1, 0): the call returned; reconstruct_path
\* starts with path = [0], mask = 1, pos = 0
SolveGotCost ==
    /\ pc = "ret"
    /\ stack = << >>
    /\ phase = "forward"
    /\ min_cost' = ret
    /\ phase' = "recon"
    /\ path' = <<0>>
    /\ rmask' = 1
    /\ rpos' = 0
    /\ pc' = "rhead"
    /\ UNCHANGED <<solverVars, dp, computed_states, stack, ret, scanVars,
                   inserts, fallbacks, last_add>>

(* ------------------------------------------------------------------ *)
(* tsp_dp                                                              *)
(* ------------------------------------------------------------------ *)

\* return v: pop the activation record and hand v to the caller
Return(v) ==
    /\ stack' = Pop
    /\ ret' = v
    /\ pc' = "ret"

\* a panic (index out of bounds) ends the process
Panic ==
    /\ pc' = "panic"
    /\ UNCHANGED <<stack, ret>>

\* if mask == (1 << self.n) - 1
AllVisited(mask) == mask = FullMask(n)

\* mutant of BaseValue: the edge back to city 0 is not charged
BaseValue_Zero(pos) == 0

\* return self.dist[pos][0]
BaseValue(pos) == Dist(pos, 0)

\* mutant of MemoHit: the memo is never consulted
MemoHit_Never(key) == FALSE

\* self.dp.get(&(mask, pos)) is Some
MemoHit(key) == key \in DOMAIN dp

\* base case: all cities visited, return the cost to the start city
DpBase ==
    /\ pc = "call"
    /\ AllVisited(Top.mask)
    /\ computed_states' = computed_states + 1
    /\ IF InBounds(Top.pos, 0) THEN Return(BaseValue(Top.pos)) ELSE Panic
    /\ UNCHANGED <<solverVars, dp, phase, min_cost, reconVars,
                   inserts, fallbacks, last_add>>

\* memo hit: return the stored result
DpMemoHit ==
    /\ pc = "call"
    /\ ~AllVisited(Top.mask)
    /\ MemoHit(Key(Top))
    /\ computed_states' = computed_states + 1
    /\ Return(dp[Key(Top)])
    /\ UNCHANGED <<solverVars, dp, phase, min_cost, reconVars,
                   inserts, fallbacks, last_add>>

\* memo miss: let mut ans = INF and enter the for loop
DpMiss ==
    /\ pc = "call"
    /\ ~AllVisited(Top.mask)
    /\ ~MemoHit(Key(Top))
    /\ computed_states' = computed_states + 1
    /\ stack' = [stack EXCEPT ![Len(stack)] = [@ EXCEPT !.ans = INF, !.city = 0]]
    /\ pc' = "loop"
    /\ UNCHANGED <<solverVars, dp, phase, ret, min_cost, reconVars,
                   inserts, fallbacks, last_add>>

\* for city in 0..self.n: city already visited
DpSkip ==
    /\ pc = "loop"
    /\ Top.city < n
    /\ ~NotVisited(Top.mask, Top.city)
    /\ stack' = [stack EXCEPT ![Len(stack)].city = @ + 1]
    /\ UNCHANGED <<solverVars, dp, computed_states, pc, phase, ret, min_cost,
                   reconVars, inserts, fallbacks, last_add>>

\* self.dist[pos][city] + self.tsp_dp(new_mask, city): the left operand is
\* read, then the call is made
DpRecurse ==
    /\ pc = "loop"
    /\ Top.city < n
    /\ NotVisited(Top.mask, Top.city)
    /\ IF InBounds(Top.pos, Top.city)
       THEN /\ stack' = Append(stack, Frame(WithCity(Top.mask, Top.city), Top.city))
            /\ pc' = "call"
            /\ ret' = ret
       ELSE Panic
    /\ UNCHANGED <<solverVars, dp, computed_states, phase, min_cost,
                   reconVars, inserts, fallbacks, last_add>>

\* ans.min(cost)
Improve(ans, cost) == Min(ans, cost)

\* let cost = self.dist[pos][city] + <returned value>; ans = ans.min(cost)
DpResume ==
    /\ pc = "ret"
    /\ stack # << >>
    /\ LET l == Dist(Top.pos, Top.city)
           cost == Add32(l, ret)
       IN  /\ last_add' = <<l, ret>>
           /\ stack' = [stack EXCEPT ![Len(stack)] =
                           [@ EXCEPT !.ans = Improve(@, cost), !.city = @ + 1]]
    /\ pc' = "loop"
    /\ UNCHANGED <<solverVars, dp, computed_states, phase, ret, min_cost,
                   reconVars, inserts, fallbacks>>

\* mutant of MemoInsert: the result is not stored
MemoInsert_Drop(key, v) == dp

\* self.dp.insert((mask, pos), ans)
MemoInsert(key, v) ==
    IF key \in DOMAIN dp THEN [dp EXCEPT ![key] = v]
    ELSE [k \in DOMAIN dp \cup {key} |-> IF k = key THEN v ELSE dp[k]]

\* end of the for loop: self.dp.insert((mask, pos), ans); ans
DpInsert ==
    /\ pc = "loop"
    /\ Top.city = n
    /\ dp' = MemoInsert(Key(Top), Top.ans)
    /\ inserts' = inserts + 1
    /\ Return(Top.ans)
    /\ UNCHANGED <<solverVars, computed_states, phase, min_cost, reconVars,
                   fallbacks, last_add>>

(* ------------------------------------------------------------------ *)
(* reconstruct_path                                                    *)
(* ------------------------------------------------------------------ *)

\* path.push(c) succeeds while the vector can grow; when the allocation
\* fails the process aborts. MaxPathLen stands for the memory available.
CanPush == Len(path) < MaxPathLen

\* while mask != (1 << self.n) - 1: one more iteration
ReconHead ==
    /\ pc = "rhead"
    /\ ~AllVisited(rmask)
    /\ next_city' = 0
    /\ rmin' = INF
    /\ rcity' = 0
    /\ pc' = "rscan"
    /\ UNCHANGED <<solverVars, dp, computed_states, phase, stack, ret, min_cost,
                   path, rmask, rpos, inserts, fallbacks, last_add>>

\* mutant of ReconClose: the cycle is not closed with city 0
ReconClose_NoReturn ==
    /\ pc = "rhead"
    /\ AllVisited(rmask)
    /\ pc' = "done"
    /\ UNCHANGED <<solverVars, dp, computed_states, phase, stack, ret, min_cost,
                   reconVars, inserts, fallbacks, last_add>>

\* the while loop ends: path.push(0); path
ReconClose ==
    /\ pc = "rhead"
    /\ AllVisited(rmask)
    /\ IF CanPush
       THEN path' = Append(path, 0) /\ pc' = "done"
       ELSE path' = path /\ pc' = "abort"
    /\ UNCHANGED <<solverVars, dp, computed_states, phase, stack, ret, min_cost,
                   rmask, rpos, scanVars, inserts, fallbacks, last_add>>

\* for city in 0..self.n: city already visited
ReconSkip ==
    /\ pc = "rscan"
    /\ rcity < n
    /\ ~NotVisited(rmask, rcity)
    /\ rcity' = rcity + 1
    /\ UNCHANGED <<solverVars, dp, computed_states, pc, phase, stack, ret,
                   min_cost, path, rmask, rpos, next_city, rmin,
                   inserts, fallbacks, last_add>>

\* mutant of Better: a later city of equal cost replaces the earlier one
Better_OrEqual(cost, best) == cost <= best

\* if cost < min_cost
Better(cost, best) == cost < best

\* mutant of ReconCost: the edge to the candidate city is left out
ReconCost_NoEdge(l, dp_value) == dp_value

\* self.dist[pos][city] + dp_value
ReconCost(l, dp_value) == Add32(l, dp_value)

\* let cost = self.dist[pos][city] + dp_value;
\* if cost < min_cost { min_cost = cost; next_city = city; }
ReconCompare(dp_value) ==
    IF InBounds(rpos, rcity)
    THEN LET l == Dist(rpos, rcity)
             cost == ReconCost(l, dp_value)
         IN  /\ last_add' = <<l, dp_value>>
             /\ rmin' = IF Better(cost, rmin) THEN cost ELSE rmin
             /\ next_city' = IF Better(cost, rmin) THEN rcity ELSE next_city
             /\ rcity' = rcity + 1
             /\ pc' = "rscan"
    ELSE /\ pc' = "panic"
         /\ UNCHANGED <<scanVars, last_add>>

\* dp_value = val, from self.dp.get(&(new_mask, city))
ReconLookup ==
    /\ pc = "rscan"
    /\ rcity < n
    /\ NotVisited(rmask, rcity)
    /\ MemoHit(<<WithCity(rmask, rcity), rcity>>)
    /\ ReconCompare(dp[<<WithCity(rmask, rcity), rcity>>])
    /\ UNCHANGED <<solverVars, dp, computed_states, phase, stack, ret, min_cost,
                   path, rmask, rpos, inserts, fallbacks>>

\* dp_value = self.tsp_dp(new_mask, city): the call
ReconFallback ==
    /\ pc = "rscan"
    /\ rcity < n
    /\ NotVisited(rmask, rcity)
    /\ ~MemoHit(<<WithCity(rmask, rcity), rcity>>)
    /\ stack' = <<Frame(WithCity(rmask, rcity), rcity)>>
    /\ fallbacks' = fallbacks \cup {<<WithCity(rmask, rcity), rcity>>}
    /\ pc' = "call"
    /\ UNCHANGED <<solverVars, dp, computed_states, phase, ret, min_cost,
                   reconVars, inserts, last_add>>

\* dp_value = self.tsp_dp(new_mask, city): the call returned
ReconResume ==
    /\ pc = "ret"
    /\ stack = << >>
    /\ phase = "recon"
    /\ ReconCompare(ret)
    /\ UNCHANGED <<solverVars, dp, computed_states, phase, stack, ret, min_cost,
                   path, rmask, rpos, inserts, fallbacks>>

\* end of the for loop: path.push(next_city); mask |= 1 << next_city;
\* pos = next_city
ReconAdvance ==
    /\ pc = "rscan"
    /\ rcity = n
    /\ IF CanPush
       THEN /\ path' = Append(path, next_city)
            /\ rmask' = WithCity(rmask, next_city)
            /\ rpos' = next_city
            /\ pc' = "rhead"
       ELSE /\ pc' = "abort"
            /\ UNCHANGED <<path, rmask, rpos>>
    /\ UNCHANGED <<solverVars, dp, computed_states, phase, stack, ret, min_cost,
                   scanVars, inserts, fallbacks, last_add>>

Next ==
    \/ SolveTrivial
    \/ SolveCall
    \/ SolveGotCost
    \/ DpBase
    \/ DpMemoHit
    \/ DpMiss
    \/ DpSkip
    \/ DpRecurse
    \/ DpResume
    \/ DpInsert
    \/ ReconHead
    \/ ReconClose
    \/ ReconSkip
    \/ ReconLookup
    \/ ReconFallback
    \/ ReconResume
    \/ ReconAdvance

Spec == Init /\ [][Next]_vars

\* solve runs to its end: no step of it waits for anything
FairSpec == Spec /\ WF_vars(Next)

(* ------------------------------------------------------------------ *)
(* Reference definitions used by the properties                        *)
(* ------------------------------------------------------------------ *)

\* the matrix is square (n rows of n columns)
IsSquare == \A i \in 1..Len(dist) : Len(dist[i]) = Len(dist)

\* a + b for a, b in 0..INF, with any total >= INF reported as INF
SatAdd(a, b) == IF a >= INF - b THEN INF ELSE a + b

Cities == 0..(n - 1)

RECURSIVE Orderings(_)
\* all orderings (sequences without repetition) of the cities of S
Orderings(S) ==
    IF S = {} THEN {<< >>}
    ELSE UNION {{<<c>> \o p : p \in Orderings(S \ {c})} : c \in S}

RECURSIVE WalkCost(_)
\* sum of the edge costs along the walk w (a sequence of cities)
WalkCost(w) ==
    IF Len(w) <= 1 THEN 0
    ELSE SatAdd(Dist(w[1], w[2]), WalkCost(Tail(w)))

\* the Hamiltonian cycles through the n cities that start and end at city 0
Cycles == {<<0>> \o p \o <<0>> : p \in Orderings(Cities \ {0})}

SetMin(S) == CHOOSE x \in S : \A y \in S : x <= y

\* cost of a cheapest Hamiltonian cycle, INF when none is below INF
BruteForceCost == SetMin({WalkCost(w) : w \in Cycles})

RECURSIVE RestCost(_, _)
\* cheapest way to visit every city outside V from city pos and to return
\* to city 0 (V is the set of visited cities), INF when none is below INF
RestCost(V, pos) ==
    IF V = Cities THEN Min(Dist(pos, 0), INF)
    ELSE SetMin({INF} \cup {SatAdd(Dist(pos, c), RestCost(V \cup {c}, c)) : c \in Cities \ V})

\* total cost of continuing with city c from pos with V visited
StepCost(V, pos, c) == SatAdd(Dist(pos, c), RestCost(V \cup {c}, c))

\* the cities reconstruct_path had visited before it pushed path[k]
VisitedBefore(k) == {path[i] : i \in 1..(k - 1)}

\* the unvisited cities that attain the minimal total cost at the step that
\* pushed path[k]
Ties(k) ==
    LET V == VisitedBefore(k)
        pos == path[k - 1]
    IN  {c \in Cities \ V : \A d \in Cities \ V : StepCost(V, pos, c) <= StepCost(V, pos, d)}

\* solve has the cost of the tour: tsp_dp(1, 0) just returned into min_cost,
\* or solve returned
CostKnown == pc = "done" \/ (pc = "rhead" /\ path = <<0>>)

(* ------------------------------------------------------------------ *)
(* Properties                                                          *)
(* ------------------------------------------------------------------ *)

\* C1: for a square matrix of 2 <= n <= 6 cities with entries in 0..INF, the
\* cost solve computes and returns is the minimum over all Hamiltonian cycles
\* from city 0 of the sum of the edge costs, any total >= INF reported as INF.
C1_CostIsBruteForceMinimum ==
    (IsSquare /\ n >= 2 /\ n <= 6 /\ CostKnown) => min_cost = BruteForceCost

C1_Witness ==
    /\ IsSquare /\ n = MaxN /\ pc = "done"
    /\ min_cost = BruteForceCost /\ min_cost > 0 /\ min_cost < INF
    /\ \E w \in Cycles : WalkCost(w) > min_cost

\* C2: for an infeasible square matrix with n >= 2, solve terminates: it
\* returns the cost INF and a path.
C2_InfeasibleSolveReturns ==
    (pc = "start" /\ IsSquare /\ n >= 2 /\ BruteForceCost >= INF)
        ~> (pc = "done" /\ min_cost = INF)

\* C3: for a feasible square matrix with n >= 2, the edge costs along the
\* returned path sum to the returned cost.
C3_PathRealizesCost ==
    (IsSquare /\ n >= 2 /\ pc = "done" /\ min_cost < INF) => WalkCost(path) = min_cost

C3_Witness ==
    /\ IsSquare /\ n = MaxN /\ pc = "done" /\ min_cost < INF /\ min_cost > 0
    /\ WalkCost(path) = min_cost
    /\ \E i \in 1..n : \E j \in 1..n : dist[i][j] = INF

\* C4: for a feasible square matrix with n >= 2, the returned path has n + 1
\* elements, starts and ends at city 0, and its intermediate elements are the
\* cities 1..n-1, each exactly once.
C4_PathIsHamiltonianCycle ==
    (IsSquare /\ n >= 2 /\ pc = "done" /\ min_cost < INF) =>
        /\ Len(path) = n + 1
        /\ path[1] = 0
        /\ path[n + 1] = 0
        /\ \A c \in 1..(n - 1) : Cardinality({i \in 2..n : path[i] = c}) = 1

C4_Witness ==
    /\ IsSquare /\ n = MaxN /\ pc = "done" /\ min_cost < INF
    /\ Len(path) = n + 1
    /\ \E i \in 2..(n - 1) : path[i] > path[i + 1]

\* C5: on a feasible square matrix, every city reconstruct_path pushes is the
\* lowest-indexed one among the unvisited cities that attain the minimal total
\* cost; the matrix of the concrete scenario yields cost 80 and the path
\* 0, 1, 3, 2, 0.
C5_LowestIndexedTieWins ==
    /\ (IsSquare /\ n >= 2 /\ pc = "rhead" /\ min_cost < INF /\ Len(path) >= 2) =>
            /\ path[Len(path)] \in Ties(Len(path))
            /\ \A c \in Ties(Len(path)) : path[Len(path)] <= c
    /\ (dist = ExampleMatrix /\ pc = "done") =>
            (min_cost = 80 /\ path = <<0, 1, 3, 2, 0>>)

C5_Witness ==
    /\ IsSquare /\ pc = "rhead" /\ min_cost < INF /\ Len(path) >= 2
    /\ \E c \in Ties(Len(path)) : c > path[Len(path)]
    /\ n >= 4

\* the concrete scenario of C5 is solved
C5_ExampleWitness ==
    dist = ExampleMatrix /\ pc = "done" /\ path = <<0, 1, 3, 2, 0>>

\* C6: a matrix that is not square or is empty is rejected: the solver never
\* evaluates tsp_dp on it and never returns a cost and a path for it.
C6_MalformedIsRejected ==
    (~IsSquare \/ n = 0) => (stack = << >> /\ computed_states = 0 /\ pc # "done")

\* C7: for n <= 1, solve returns cost 0 and the path [0] without calling
\* tsp_dp or reconstruct_path: the memo stays empty and computed_states 0.
C7_TrivialInstance ==
    (n <= 1) =>
        /\ pc \in {"start", "done"}
        /\ dp = << >>
        /\ computed_states = 0
        /\ stack = << >>
        /\ phase = "forward"
        /\ pc = "done" => (min_cost = 0 /\ path = <<0>>)

C7_Witness == n = 1 /\ pc = "done" /\ min_cost = 0 /\ path = <<0>>

\* C8: with all entries in 0..INF, both operands of every addition are <= INF,
\* the sum is <= 2 * INF <= i32::MAX (no overflow), and every value tsp_dp
\* returns is <= INF.
C8_NoOverflow ==
    /\ last_add[1] >= 0 /\ last_add[1] <= INF
    /\ last_add[2] >= 0 /\ last_add[2] <= INF
    /\ ~Overflows(last_add[1], last_add[2])
    /\ INF <= I32Max - INF
    /\ ret <= INF

C8_Witness == last_add = <<INF, INF>> /\ ret = INF /\ phase = "recon"

\* C9: every dp.insert of a solve call adds a new key (none replaces a stored
\* cost), and the memo never holds more than n * 2^n entries.
C9_MemoWriteOnce ==
    /\ inserts = Cardinality(DOMAIN dp)
    /\ Cardinality(DOMAIN dp) <= total_states

C9_Witness ==
    /\ pc = "call" /\ phase = "forward" /\ MemoHit(Key(Top))
    /\ inserts > 0

\* C10 as stated: no state reconstruct_path queries is missing from the memo,
\* so it never calls tsp_dp.
C10_FallbackNeverTaken == fallbacks = {}

\* C10 amended: the states reconstruct_path finds missing from the memo, and
\* calls tsp_dp for, are exactly terminal ones (mask = 2^n - 1); tsp_dp answers
\* them from its base case, without recursion and without an insert; every
\* other state it queries is in the memo.
C10_FallbackOnlyForTerminalStates ==
    /\ \A k \in fallbacks : AllVisited(k[1]) /\ k \notin DOMAIN dp
    /\ (phase = "recon" /\ stack # << >>) => (Len(stack) = 1 /\ AllVisited(Top.mask))
    /\ (pc = "done" /\ n >= 2) => fallbacks # {}

C10_Witness ==
    /\ pc = "done" /\ n = MaxN
    /\ fallbacks = {<<FullMask(n), path[n]>>}
====
